---- MODULE Spec2Model ----
(***************************************************************************)
(* A model of the upload pipeline of the toolkit package                   *)
(* (src/trevor_sawler/toolkit/tools.go): Tools.UploadFiles,                *)
(* Tools.UploadOneFile, Tools.CreateDirIfNotExist and Tools.RandomString.  *)
(*                                                                         *)
(* One behaviour is one call of UploadFiles or UploadOneFile.  Init draws  *)
(* the receiver t, the arguments, the request and the state of the upload  *)
(* directory; every statement of UploadFiles that can fail or that touches *)
(* a handle or the file system is one action, selected by pc.  File names, *)
(* MIME types and file contents are sequences (of one-character strings    *)
(* and of byte values), so that filepath.Ext, strings.EqualFold and the    *)
(* content sniffing are computed and not assumed.                          *)
(***************************************************************************)
EXTENDS Integers, Sequences, FiniteSets, TLC

(***************************************************************************)
(* Bounds of the model.                                                    *)
(***************************************************************************)
\* The largest number of file parts in one request.
MaxParts == 2

(***************************************************************************)
(* Program constants.                                                      *)
(***************************************************************************)
\* tools.go:18  const randomStringSource
randomStringSource ==
    << "a","b","c","d","e","f","g","h","i","j","k","l","m",
       "n","o","p","q","r","s","t","u","v","w","x","y","z",
       "A","B","C","D","E","F","G","H","I","J","K","L","M",
       "N","O","P","Q","R","S","T","U","V","W","X","Y","Z",
       "0","1","2","3","4","5","6","7","8","9","_","+" >>

\* tools.go:123  buff := make([]byte, 512)
SniffLen == 512

\* tools.go:156  t.RandomString(25)
RandomNameLen == 25

\* tools.go:93  t.MaxFileSize = 1024 * 1024 * 1024
DefaultMaxFileSize == 1024 * 1024 * 1024

\* net/http ParseMultipartForm keeps maxMemory + 10 MB for the non-file parts
ValueReserve == 10 * 1024 * 1024

\* error values
NoError == "nil"
ErrTooBig == "the uploaded file is too big"
ErrFileType == "the uploaded file type is not permitted"
ErrEOF == "EOF"
ErrMkdir == "mkdir: permission denied"
ErrOpen == "open: i/o error"
ErrRead == "read: i/o error"
ErrSeek == "seek: i/o error"
ErrCreate == "create: i/o error"
ErrCopy == "copy: i/o error"
PanicIndex == "panic: runtime error: index out of range [0] with length 0"

(***************************************************************************)
(* Strings: a string is a sequence of one-character strings.               *)
(***************************************************************************)
UpperLetters ==
    << "A","B","C","D","E","F","G","H","I","J","K","L","M",
       "N","O","P","Q","R","S","T","U","V","W","X","Y","Z" >>

LowerLetters ==
    << "a","b","c","d","e","f","g","h","i","j","k","l","m",
       "n","o","p","q","r","s","t","u","v","w","x","y","z" >>

\* The simple case folding of one character, as strings.EqualFold folds it.
FoldChar(c) ==
    IF \E i \in 1..Len(UpperLetters) : UpperLetters[i] = c
    THEN LowerLetters[CHOOSE i \in 1..Len(UpperLetters) : UpperLetters[i] = c]
    ELSE c

\* strings.EqualFold(s, x): equal under case folding, character by character.
EqualFold(s, x) ==
    /\ Len(s) = Len(x)
    /\ \A i \in 1..Len(s) : FoldChar(s[i]) = FoldChar(x[i])

\* filepath.Ext(path): the suffix starting at the last dot of the last path
\* element, empty when that element has no dot.  The scan runs from the end and
\* stops at a path separator.
RECURSIVE ExtFrom(_, _)
ExtFrom(path, i) ==
    IF i < 1 \/ path[i] = "/" THEN << >>
    ELSE IF path[i] = "." THEN SubSeq(path, i, Len(path))
    ELSE ExtFrom(path, i - 1)

Ext(path) == ExtFrom(path, Len(path))

\* Repeat(c, n): n copies of c.
Repeat(c, n) == [i \in 1..n |-> c]

(***************************************************************************)
(* MIME types the sniffer answers with.                                    *)
(***************************************************************************)
MimeJpeg == << "i","m","a","g","e","/","j","p","e","g" >>
MimePng == << "i","m","a","g","e","/","p","n","g" >>
MimeGif == << "i","m","a","g","e","/","g","i","f" >>
MimeText ==
    << "t","e","x","t","/","p","l","a","i","n",";"," ",
       "c","h","a","r","s","e","t","=","u","t","f","-","8" >>
MimeOctet ==
    << "a","p","p","l","i","c","a","t","i","o","n","/",
       "o","c","t","e","t","-","s","t","r","e","a","m" >>

(***************************************************************************)
(* http.DetectContentType, restricted to the signatures the modelled       *)
(* contents can carry: the three image signatures of the demo's allow-list,*)
(* then the text rule, then the fallback.  Exact signatures are matched at *)
(* offset 0; the text rule skips leading white space and rejects any       *)
(* binary byte, the zero byte included.                                    *)
(***************************************************************************)
SigJpeg == << 255, 216, 255 >>
SigPng == << 137, 80, 78, 71, 13, 10, 26, 10 >>
SigGif87 == << 71, 73, 70, 56, 55, 97 >>
SigGif89 == << 71, 73, 70, 56, 57, 97 >>

HasPrefix(data, sig) ==
    /\ Len(data) >= Len(sig)
    /\ \A i \in 1..Len(sig) : data[i] = sig[i]

IsWS(b) == b \in {9, 10, 12, 13, 32}

IsBinaryByte(b) ==
    \/ b <= 8
    \/ b = 11
    \/ (14 <= b /\ b <= 26)
    \/ (28 <= b /\ b <= 31)

FirstNonWS(data) ==
    IF \E i \in 1..Len(data) : ~IsWS(data[i])
    THEN CHOOSE i \in 1..Len(data) :
            ~IsWS(data[i]) /\ \A j \in 1..(i - 1) : IsWS(data[j])
    ELSE Len(data) + 1

DetectContentType(data) ==
    IF HasPrefix(data, SigGif87) \/ HasPrefix(data, SigGif89) THEN MimeGif
    ELSE IF HasPrefix(data, SigPng) THEN MimePng
    ELSE IF HasPrefix(data, SigJpeg) THEN MimeJpeg
    ELSE IF \A i \in FirstNonWS(data)..Len(data) : ~IsBinaryByte(data[i])
         THEN MimeText
    ELSE MimeOctet

\* A variant of TypeAllowed: allowed starts out true, so that no entry needs
\* to match.
TypeAllowedInitTrue(fileType, allowedTypes) == TRUE

\* tools.go:130-141: allowed is true when AllowedFileTypes is empty or some
\* entry equals the sniffed type under case folding.
TypeAllowed(fileType, allowedTypes) ==
    IF Len(allowedTypes) > 0
    THEN \E i \in 1..Len(allowedTypes) : EqualFold(fileType, allowedTypes[i])
    ELSE TRUE

(***************************************************************************)
(* RandomString.  rand.Prime(rand.Reader, 64) yields a random 64-bit       *)
(* prime x and the character chosen is r[x % 64], which depends only on    *)
(* the low six bits of x.  A draw is represented by a small odd number     *)
(* congruent to the prime modulo 64 (a 64-bit prime is odd).  primes is    *)
(* the sequence of draws the random source delivers.                       *)
(***************************************************************************)
RandomString(n, primes) ==
    [i \in 1..n |->
        randomStringSource[(primes[i] % Len(randomStringSource)) + 1]]

\* The sequences of draws the model lets the random source deliver.
PrimeStreams ==
    { [i \in 1..RandomNameLen |-> 5],
      [i \in 1..RandomNameLen |-> IF i % 2 = 1 THEN 127 ELSE 37] }

\* A variant of NewFileName: the extension is not appended.
NewFileNameNoExt(renameFlag, filename, primes) ==
    IF renameFlag
    THEN RandomString(RandomNameLen, primes)
    ELSE filename

\* tools.go:155-159: the name the file is stored under.
NewFileName(renameFlag, filename, primes) ==
    IF renameFlag
    THEN RandomString(RandomNameLen, primes) \o Ext(filename)
    ELSE filename

(***************************************************************************)
(* The requests the model draws from.  A file part is the FileHeader's     *)
(* Filename and the bytes of the part.  The contents have the lengths      *)
(* around the sniff window: 0, 1, SniffLen - 1, SniffLen, SniffLen + 1.    *)
(***************************************************************************)
\* n bytes that start with sig and go on with printable bytes that differ
\* from one position to the next.
Bytes(sig, n) ==
    [i \in 1..n |-> IF i <= Len(sig) THEN sig[i] ELSE 97 + (i % 26)]

NamePhoto == << "p","h","o","t","o",".","p","n","g" >>
NameNotes == << "n","o","t","e","s" >>
NameLikeRandom == Repeat("f", RandomNameLen) \o << ".","p","n","g" >>

PartCatalogue ==
    { [Filename |-> NamePhoto, content |-> Bytes(SigJpeg, SniffLen + 1)],
      [Filename |-> NamePhoto, content |-> Bytes(SigPng, SniffLen - 1)],
      [Filename |-> NameNotes, content |-> << >>],
      [Filename |-> NameLikeRandom, content |-> Bytes(<< >>, 1)],
      [Filename |-> NameNotes, content |-> Bytes(<< >>, SniffLen)] }

\* The file parts of a request, in the order the two range loops of
\* tools.go:109-110 visit them.
PartLists == UNION { [1..n -> PartCatalogue] : n \in 0..MaxParts }

\* Tools.AllowedFileTypes: empty, or the images of the demo in mixed case.
AllowLists ==
    { << >>,
      << << "I","m","a","g","e","/","J","P","E","G" >>, MimePng >> }

\* Tools.MaxFileSize: unset, or two sniff windows.
MaxFileSizes == {0, 2 * SniffLen}

\* What os.Stat and os.MkdirAll find at uploadDir: a directory, nothing (and
\* the parent writable or not), a regular file, or a path that cannot be
\* searched for lack of permission.
DirStates == {"dir", "absent", "absentReadOnlyParent", "file", "denied"}

\* The maxMemory UploadFiles hands to ParseMultipartForm (tools.go:92-94,102).
EffectiveMax(m) == IF m = 0 THEN DefaultMaxFileSize ELSE m

VARIABLES
    t,              \* the receiver: [MaxFileSize, AllowedFileTypes]
    renameFile,     \* tools.go:83-86
    entry,          \* the method called: "UploadFiles" or "UploadOneFile"
    uploadDir,      \* the state of the directory uploadDir names
    request,        \* [wellFormed, valueBytes, parts]
    pc,             \* the statement UploadFiles is at
    idx,            \* the number of the file part the loop is at
    inOpen,         \* the parts whose input stream is open
    outOpen,        \* the names whose destination file handle is open
    offset,         \* the read position of infile
    buff,           \* tools.go:123
    fileType,       \* tools.go:131
    uploadedFile,   \* tools.go:113
    uploadedFiles,  \* tools.go:89
    err,            \* the error UploadFiles returns
    fs,             \* the regular files in uploadDir: name -> bytes
    opened,         \* the parts hdr.Open was called on and succeeded
    stored,         \* the NewFileName given to each part that got one
    result          \* what UploadOneFile returns

vars ==
    << t, renameFile, entry, uploadDir, request, pc, idx, inOpen, outOpen,
       offset, buff, fileType, uploadedFile, uploadedFiles, err, fs, opened,
       stored, result >>

NoFiles == << >>
NoResult == [file |-> "none", err |-> "none"]

Init ==
    /\ t \in [MaxFileSize : MaxFileSizes, AllowedFileTypes : AllowLists]
    /\ renameFile \in BOOLEAN
    /\ entry \in {"UploadFiles", "UploadOneFile"}
    /\ uploadDir \in DirStates
    /\ \E parts \in PartLists, wf \in BOOLEAN :
        \E vb \in {0, EffectiveMax(t.MaxFileSize) + ValueReserve + 1} :
            request = [wellFormed |-> wf, valueBytes |-> vb, parts |-> parts]
    /\ pc = "start"
    /\ idx = 0
    /\ inOpen = {}
    /\ outOpen = {}
    /\ offset = 0
    /\ buff = << >>
    /\ fileType = << >>
    /\ uploadedFile = [NewFileName |-> << >>, OriginalFileName |-> << >>,
                       FileSize |-> 0]
    /\ uploadedFiles = NoFiles
    /\ err = NoError
    /\ fs = << >>
    /\ opened = {}
    /\ stored = << >>
    /\ result = NoResult

(***************************************************************************)
(* Helpers of the actions.                                                 *)
(***************************************************************************)
Min(a, b) == IF a <= b THEN a ELSE b

\* The part the loop is at (hdr).
Hdr == request.parts[idx]

\* A variant of DeferredClose: the closes are not deferred, and a return
\* leaves the handles open.
NoDeferredClose(handles) == handles

\* defer infile.Close() / defer outfile.Close() (tools.go:120,169): when the
\* closure returns, the handles it opened are closed.
DeferredClose(handles) == {}

\* CreateDirIfNotExist (tools.go:195-209): MkdirAll is called only when Stat
\* reports that the path does not exist; every other outcome of Stat, a
\* regular file at the path or a permission error included, returns nil.
CreateDirIfNotExist(dir) ==
    IF dir \in {"absent", "absentReadOnlyParent"}
    THEN IF dir = "absent"
         THEN [dir |-> "dir", err |-> NoError]
         ELSE [dir |-> dir, err |-> ErrMkdir]
    ELSE [dir |-> dir, err |-> NoError]

\* r.ParseMultipartForm(maxMemory) (tools.go:102): maxMemory bounds what is
\* kept in memory, not the request.  File parts beyond it go to temporary
\* files; the call fails on a malformed body and when the non-file values
\* exceed maxMemory plus the 10 MB reserve.
ParseFails(req, maxMemory) ==
    \/ ~req.wellFormed
    \/ req.valueBytes > maxMemory + ValueReserve

\* infile.Read(buff) (tools.go:123-124): the next bytes of the part, at most
\* SniffLen of them, in a zeroed buffer of SniffLen bytes.
ReadInto(content, off) ==
    [i \in 1..SniffLen |->
        IF off + i <= Len(content) THEN content[off + i] ELSE 0]

\* infile.Seek(0, 0) (tools.go:149).
SeekStart(off) == 0

\* os.Create (tools.go:166): the file is created, or truncated when it exists.
OsCreate(files, name) == (name :> << >>) @@ files

\* io.Copy(outfile, infile) (tools.go:172): the bytes from the read position
\* to the end of the part.
RestOf(content, off) == SubSeq(content, off + 1, Len(content))

WriteTo(files, name, data) == (name :> (files[name] \o data)) @@ files

\* A variant of Fail: the files the batch has stored so far are removed
\* before the error is returned.
FailWithRollback(e, files) ==
    /\ pc' = "returned"
    /\ err' = e
    /\ uploadedFiles' = NoFiles
    /\ inOpen' = DeferredClose(inOpen)
    /\ outOpen' = DeferredClose(outOpen)
    /\ fs' = [n \in DOMAIN files \ {stored[i] : i \in 1..Len(stored)}
                |-> files[n]]

\* A return with an error from the closure (tools.go:118,126,145,151,167,174)
\* followed by the return of tools.go:185-187: the closure returns nil for
\* the slice, which is assigned to uploadedFiles before it is returned; the
\* deferred closes run; nothing is removed from the directory.
Fail(e, files) ==
    /\ pc' = "returned"
    /\ err' = e
    /\ uploadedFiles' = NoFiles
    /\ inOpen' = DeferredClose(inOpen)
    /\ outOpen' = DeferredClose(outOpen)
    /\ fs' = files

(***************************************************************************)
(* UploadFiles, statement by statement.                                    *)
(***************************************************************************)
\* tools.go:92-94
SetDefault ==
    /\ pc = "start"
    /\ t' = IF t.MaxFileSize = 0
            THEN [t EXCEPT !.MaxFileSize = DefaultMaxFileSize]
            ELSE t
    /\ pc' = "mkdir"
    /\ UNCHANGED << renameFile, entry, uploadDir, request, idx, inOpen,
                    outOpen, offset, buff, fileType, uploadedFile,
                    uploadedFiles, err, fs, opened, stored, result >>

\* tools.go:96-99
EnsureDir ==
    /\ pc = "mkdir"
    /\ LET r == CreateDirIfNotExist(uploadDir) IN
        /\ uploadDir' = r.dir
        /\ err' = r.err
        /\ pc' = IF r.err = NoError THEN "parse" ELSE "returned"
    /\ UNCHANGED << t, renameFile, entry, request, idx, inOpen, outOpen,
                    offset, buff, fileType, uploadedFile, uploadedFiles, fs,
                    opened, stored, result >>

\* tools.go:102-106
Parse ==
    /\ pc = "parse"
    /\ IF ParseFails(request, t.MaxFileSize)
       THEN pc' = "returned" /\ err' = ErrTooBig
       ELSE pc' = "loop" /\ err' = err
    /\ UNCHANGED << t, renameFile, entry, uploadDir, request, idx, inOpen,
                    outOpen, offset, buff, fileType, uploadedFile,
                    uploadedFiles, fs, opened, stored, result >>

\* tools.go:109-120: the next part, and hdr.Open() on it.
Open ==
    /\ pc = "loop"
    /\ idx < Len(request.parts)
    /\ idx' = idx + 1
    /\ \/ /\ inOpen' = inOpen \cup {idx + 1}
          /\ opened' = opened \cup {idx + 1}
          /\ offset' = 0
          /\ pc' = "read"
          /\ UNCHANGED << err, uploadedFiles, outOpen, fs >>
       \/ /\ Fail(ErrOpen, fs)
          /\ UNCHANGED << opened, offset >>
    /\ UNCHANGED << t, renameFile, entry, uploadDir, request, buff, fileType,
                    uploadedFile, stored, result >>

\* tools.go:123-127: a read at the end of the part returns io.EOF.
Read ==
    /\ pc = "read"
    /\ IF offset >= Len(Hdr.content)
       THEN /\ Fail(ErrEOF, fs)
            /\ UNCHANGED << buff, offset >>
       ELSE \/ /\ buff' = ReadInto(Hdr.content, offset)
               /\ offset' = offset + Min(SniffLen, Len(Hdr.content) - offset)
               /\ pc' = "sniff"
               /\ UNCHANGED << err, uploadedFiles, inOpen, outOpen, fs >>
            \/ /\ Fail(ErrRead, fs)
               /\ UNCHANGED << buff, offset >>
    /\ UNCHANGED << t, renameFile, entry, uploadDir, request, idx, fileType,
                    uploadedFile, opened, stored, result >>

\* tools.go:130-146
Sniff ==
    /\ pc = "sniff"
    /\ fileType' = DetectContentType(buff)
    /\ IF TypeAllowed(DetectContentType(buff), t.AllowedFileTypes)
       THEN /\ pc' = "seek"
            /\ UNCHANGED << err, uploadedFiles, inOpen, outOpen, fs >>
       ELSE Fail(ErrFileType, fs)
    /\ UNCHANGED << t, renameFile, entry, uploadDir, request, idx, offset,
                    buff, uploadedFile, opened, stored, result >>

\* tools.go:149-152
Seek ==
    /\ pc = "seek"
    /\ \/ /\ offset' = SeekStart(offset)
          /\ pc' = "name"
          /\ UNCHANGED << err, uploadedFiles, inOpen, outOpen, fs >>
       \/ /\ Fail(ErrSeek, fs)
          /\ UNCHANGED offset
    /\ UNCHANGED << t, renameFile, entry, uploadDir, request, idx, buff,
                    fileType, uploadedFile, opened, stored, result >>

\* tools.go:155-162
Name ==
    /\ pc = "name"
    /\ \E primes \in PrimeStreams :
        LET n == NewFileName(renameFile, Hdr.Filename, primes) IN
        /\ uploadedFile' = [NewFileName |-> n,
                            OriginalFileName |-> Hdr.Filename,
                            FileSize |-> 0]
        /\ stored' = Append(stored, n)
    /\ pc' = "create"
    /\ UNCHANGED << t, renameFile, entry, uploadDir, request, idx, inOpen,
                    outOpen, offset, buff, fileType, uploadedFiles, err, fs,
                    opened, result >>

\* tools.go:165-169: os.Create fails when uploadDir is not a directory that
\* can be written to, and may fail otherwise.
Create ==
    /\ pc = "create"
    /\ \/ /\ uploadDir = "dir"
          /\ fs' = OsCreate(fs, uploadedFile.NewFileName)
          /\ outOpen' = outOpen \cup {uploadedFile.NewFileName}
          /\ pc' = "copy"
          /\ UNCHANGED << err, uploadedFiles, inOpen >>
       \/ Fail(ErrCreate, fs)
    /\ UNCHANGED << t, renameFile, entry, uploadDir, request, idx, offset,
                    buff, fileType, uploadedFile, opened, stored, result >>

\* tools.go:172-182: the copy, the record, and the closure's return.  A copy
\* that fails has written some of the bytes.
Copy ==
    /\ pc = "copy"
    /\ LET data == RestOf(Hdr.content, offset)
           name == uploadedFile.NewFileName
       IN
        \/ /\ fs' = WriteTo(fs, name, data)
           /\ uploadedFile' = [uploadedFile EXCEPT !.FileSize = Len(data)]
           /\ uploadedFiles' = Append(uploadedFiles, uploadedFile')
           /\ offset' = offset + Len(data)
           /\ inOpen' = DeferredClose(inOpen)
           /\ outOpen' = DeferredClose(outOpen)
           /\ pc' = "loop"
           /\ UNCHANGED err
        \/ /\ \E k \in {0, Len(data) \div 2} :
                Fail(ErrCopy, WriteTo(fs, name, SubSeq(data, 1, k)))
           /\ UNCHANGED << uploadedFile, offset >>
    /\ UNCHANGED << t, renameFile, entry, uploadDir, request, idx, buff,
                    fileType, opened, stored, result >>

\* tools.go:191
ReturnFiles ==
    /\ pc = "loop"
    /\ idx = Len(request.parts)
    /\ pc' = "returned"
    /\ err' = NoError
    /\ UNCHANGED << t, renameFile, entry, uploadDir, request, idx, inOpen,
                    outOpen, offset, buff, fileType, uploadedFile,
                    uploadedFiles, fs, opened, stored, result >>

(***************************************************************************)
(* UploadOneFile (tools.go:62-74), after its call of UploadFiles returned: *)
(* files[0] is indexed without a check of len(files).                      *)
(***************************************************************************)
UploadOneFileReturn ==
    /\ pc = "returned"
    /\ entry = "UploadOneFile"
    /\ result' = IF err # NoError THEN [file |-> "none", err |-> err]
                 ELSE IF Len(uploadedFiles) = 0
                      THEN [file |-> "none", err |-> PanicIndex]
                 ELSE [file |-> uploadedFiles[1], err |-> NoError]
    /\ pc' = "done"
    /\ UNCHANGED << t, renameFile, entry, uploadDir, request, idx, inOpen,
                    outOpen, offset, buff, fileType, uploadedFile,
                    uploadedFiles, err, fs, opened, stored >>

Next ==
    \/ SetDefault
    \/ EnsureDir
    \/ Parse
    \/ Open
    \/ Read
    \/ Sniff
    \/ Seek
    \/ Name
    \/ Create
    \/ Copy
    \/ ReturnFiles
    \/ UploadOneFileReturn

Spec == Init /\ [][Next]_vars

(***************************************************************************)
(* Vocabulary of the properties.                                           *)
(***************************************************************************)
Parts == request.parts

\* The type sniffed from the leading bytes of part j.
SniffedType(j) == DetectContentType(ReadInto(Parts[j].content, 0))

\* The allow-list is non-empty and the type equals none of its entries
\* under case folding.
MatchesNone(type, allowedTypes) ==
    /\ Len(allowedTypes) > 0
    /\ \A i \in 1..Len(allowedTypes) : ~EqualFold(type, allowedTypes[i])

\* UploadFiles returned an error from inside the loop, at part idx.
FailedInLoop == pc = "returned" /\ err # NoError /\ idx >= 1

\* A later part was given the stored name of part j.
NameReusedAfter(j) == \E i \in (j + 1)..Len(stored) : stored[i] = stored[j]

\* Errors that the environment injects (a failing disk, a malformed body),
\* as opposed to errors the inputs of the call determine.
EnvironmentFaults ==
    {ErrMkdir, ErrTooBig, ErrOpen, ErrRead, ErrSeek, ErrCreate, ErrCopy}

RECURSIVE SumLen(_, _)
SumLen(parts, n) ==
    IF n = 0 THEN 0 ELSE Len(parts[n].content) + SumLen(parts, n - 1)

\* The payload of the request body; the multipart envelope only adds to it.
BodySize == request.valueBytes + SumLen(Parts, Len(Parts))

\* The record the claims expect for part j once it is stored.
RecordOf(j) ==
    [NewFileName |-> stored[j],
     OriginalFileName |-> Parts[j].Filename,
     FileSize |-> Len(Parts[j].content)]

(***************************************************************************)
(* C1.  A part whose sniffed type matches no entry of a non-empty          *)
(* AllowedFileTypes makes UploadFiles return the file-type error, and no   *)
(* destination file is created or written for it: the step that follows    *)
(* the sniff of such a part is the failing return and leaves the directory *)
(* as it was, files change only at the create and copy statements, and     *)
(* those statements are reached only by a part whose type is permitted.    *)
(***************************************************************************)
C1_TypeRejectedBeforeCreate ==
    [][ /\ (pc = "sniff" /\ MatchesNone(SniffedType(idx), t.AllowedFileTypes))
            => /\ pc' = "returned"
               /\ err' = ErrFileType
               /\ fs' = fs
               /\ outOpen' = {}
        /\ (fs' # fs) => pc \in {"create", "copy"}
        /\ (pc \in {"create", "copy"})
            => /\ fileType = SniffedType(idx)
               /\ ~MatchesNone(fileType, t.AllowedFileTypes)
      ]_vars

\* The second part of a batch was rejected for its type: the first part's
\* file is the only file in the directory.
C1_Witness ==
    /\ pc = "returned"
    /\ err = ErrFileType
    /\ idx = 2
    /\ MatchesNone(SniffedType(2), t.AllowedFileTypes)
    /\ DOMAIN fs = {stored[1]}

(***************************************************************************)
(* C2.  When UploadFiles fails at the k-th part, the slice returned with   *)
(* the error holds exactly the records of the k-1 parts before it, in      *)
(* order.                                                                  *)
(***************************************************************************)
C2_PartialRecordsOnError ==
    FailedInLoop => uploadedFiles = [j \in 1..(idx - 1) |-> RecordOf(j)]

(***************************************************************************)
(* C3 as amended.  When UploadFiles fails at the k-th part, the file of    *)
(* every part before k is still in the directory, with the part's bytes    *)
(* unless a later part up to k was given the same stored name, and no part *)
(* after k was opened or named.                                            *)
(***************************************************************************)
C3_NoRollbackShortCircuit ==
    FailedInLoop =>
        /\ \A j \in 1..(idx - 1) :
            /\ stored[j] \in DOMAIN fs
            /\ ~NameReusedAfter(j) => fs[stored[j]] = Parts[j].content
        /\ opened \subseteq 1..idx
        /\ Len(stored) <= idx

\* C3 as claimed: the file of every part before k holds the part's bytes.
C3_Original ==
    FailedInLoop =>
        /\ \A j \in 1..(idx - 1) :
            /\ stored[j] \in DOMAIN fs
            /\ fs[stored[j]] = Parts[j].content
        /\ opened \subseteq 1..idx
        /\ Len(stored) <= idx

\* The second part failed after the first was stored under another name.
C3_Witness ==
    /\ FailedInLoop
    /\ idx = 2
    /\ Len(stored) = 2
    /\ stored[1] # stored[2]
    /\ fs[stored[1]] = Parts[1].content
    /\ Len(Parts[1].content) > 0

(***************************************************************************)
(* C4.  A batch of permitted parts, of any length including 0 and lengths  *)
(* below the sniff window, succeeds when the environment injects no fault; *)
(* each destination file then holds the part's bytes and each record's     *)
(* FileSize is the part's length.                                          *)
(***************************************************************************)
C4_RoundTripEveryLength ==
    ( /\ pc = "returned"
      /\ uploadDir = "dir"
      /\ err \notin EnvironmentFaults
      /\ \A j \in 1..Len(Parts) :
            ~MatchesNone(SniffedType(j), t.AllowedFileTypes) )
    => /\ err = NoError
       /\ Len(uploadedFiles) = Len(Parts)
       /\ \A j \in 1..Len(Parts) :
            /\ uploadedFiles[j].FileSize = Len(Parts[j].content)
            /\ ~NameReusedAfter(j)
                => fs[uploadedFiles[j].NewFileName] = Parts[j].content

(***************************************************************************)
(* C5.  UploadFiles bounds the request by MaxFileSize: a well-formed body  *)
(* of at most MaxFileSize bytes is not rejected as too big, and a body of  *)
(* more than MaxFileSize bytes never gets past the parse: the call returns *)
(* the too-big error and no file is created.                               *)
(***************************************************************************)
C5_BodyBoundedByMaxFileSize ==
    /\ (pc = "returned" /\ err = ErrTooBig /\ request.wellFormed)
        => BodySize > t.MaxFileSize
    /\ (pc \notin {"start", "mkdir", "parse"} /\ uploadDir = "dir"
            /\ BodySize > t.MaxFileSize)
        => /\ pc \in {"returned", "done"}
           /\ err = ErrTooBig
           /\ DOMAIN fs = {}

(***************************************************************************)
(* C6.  UploadOneFile on a batch that succeeds with no file part returns   *)
(* an explicit error and does not index the empty slice; when it returns   *)
(* without error it returns the first record.                              *)
(***************************************************************************)
C6_NoFileProvided ==
    (pc = "done" /\ entry = "UploadOneFile")
    => /\ result.err # PanicIndex
       /\ (err = NoError /\ Len(uploadedFiles) = 0) => result.err # NoError
       /\ result.err = NoError => result.file = uploadedFiles[1]

(***************************************************************************)
(* C7 as amended.  Every record has, with renaming, a NewFileName made of  *)
(* 25 characters of randomStringSource followed by exactly the extension   *)
(* of OriginalFileName, which differs from OriginalFileName whenever       *)
(* OriginalFileName is not itself 25 characters followed by its extension; *)
(* without renaming NewFileName is OriginalFileName.                       *)
(***************************************************************************)
SourceChars == {randomStringSource[i] : i \in 1..Len(randomStringSource)}

WellNamed(r) ==
    LET new == r.NewFileName
        orig == r.OriginalFileName
    IN  IF renameFile
        THEN /\ Len(new) = RandomNameLen + Len(Ext(orig))
             /\ \A i \in 1..RandomNameLen : new[i] \in SourceChars
             /\ SubSeq(new, RandomNameLen + 1, Len(new)) = Ext(orig)
             /\ Len(orig) # RandomNameLen + Len(Ext(orig)) => new # orig
        ELSE new = orig

C8_HandlesScoped ==
    /\ Cardinality(inOpen) <= 1
    /\ Cardinality(outOpen) <= 1
    /\ inOpen \subseteq {idx}
    /\ outOpen \subseteq {uploadedFile.NewFileName}
    /\ outOpen # {} => pc = "copy"
    /\ pc \in {"read", "sniff", "seek", "name", "create", "copy"}
        => inOpen = {idx}
    /\ pc \in {"start", "mkdir", "parse", "loop", "returned", "done"}
        => inOpen = {} /\ outOpen = {}

\* The copy of the second part failed and UploadFiles returned.
C8_Witness ==
    /\ pc = "returned"
    /\ err = ErrCopy
    /\ idx = 2
    /\ opened = {1, 2}
    /\ inOpen = {}
    /\ outOpen = {}

(***************************************************************************)
(* C9.  CreateDirIfNotExist returns an error when the path is a regular    *)
(* file or cannot be accessed, and when it is absent and cannot be         *)
(* created; UploadFiles then returns that error before it parses the       *)
(* request or writes a file.                                               *)
(***************************************************************************)
C9_EnsureDirectoryFails ==
    (uploadDir \in {"file", "denied", "absentReadOnlyParent"}
        /\ pc \notin {"start", "mkdir"})
    => /\ pc \in {"returned", "done"}
       /\ err \notin {NoError, ErrTooBig}
       /\ idx = 0
       /\ DOMAIN fs = {}

(***************************************************************************)
(* C10.  UploadFiles leaves the receiver's policy fields as they were.     *)
(***************************************************************************)
C10_PolicyUnchanged == [][t' = t]_vars

====
